---------------------------- MODULE Spec2Model ----------------------------
(***************************************************************************)
(* Torsion checks of fib Model Code 2010, 7.3.4, as implemented in         *)
(* structuralcodes/codes/mc2010/_concrete_torsion.py: v_ed_ti, t_rd_max    *)
(* and t_rd.                                                               *)
(*                                                                         *)
(* The functions are pure, so a behaviour is one call: Init draws the      *)
(* function and its arguments, and one action per function applies it and  *)
(* records what it returned or raised, with the sub-calls it made.         *)
(*                                                                         *)
(* Numbers are Python floats.  They are modelled as binary floating-point  *)
(* numbers s * m * 2^e with a Prec-bit significand and the exponent range  *)
(* of a format whose largest exponent is Emax, rounded to nearest, ties to *)
(* even, with subnormals, infinities and NaN; and with Python's rules on   *)
(* top: a division by zero raises ZeroDivisionError, an overflowing **     *)
(* raises OverflowError, a negative base under a fractional power gives a  *)
(* complex number, the math functions raise ValueError on an infinity.     *)
(* The sign of zero is not modelled (nothing here reads it).               *)
(***************************************************************************)
EXTENDS Integers, Sequences, FiniteSets

VARIABLES
    fn,      \* the function of this call
    args,    \* its arguments, by parameter name
    box,     \* which functions the two imported helpers are (see epsilon_x)
    pc,      \* "call" before the function has run, "done" after
    ret,     \* what it returned or raised
    calls    \* the calls it made to the functions it uses, in order

vars == <<fn, args, box, pc, ret, calls>>

----------------------------------------------------------------------------
(* The float format.                                                       *)

\* Significand bits (53 in a Python float).
Prec == 4
\* Largest exponent: the largest float is (2 - 2^(1-Prec)) * 2^Emax
\* (1023 in a Python float).
Emax == 15

\* Exponent of the unit in the last place of the subnormals and of the
\* largest floats.
EminU == 2 - Emax - Prec
EmaxU == Emax - Prec + 1

RECURSIVE BitLen(_)
BitLen(n) == IF n = 0 THEN 0 ELSE 1 + BitLen(n \div 2)

Abs(n) == IF n < 0 THEN -n ELSE n

Sign(n) == IF n < 0 THEN -1 ELSE 1

Fin(s, m, e) == [k |-> "fin", s |-> s, m |-> m, e |-> e]
Special(k, s) == [k |-> k, s |-> s, m |-> 0, e |-> 0]
Zero == Fin(1, 0, EminU)
Inf(s) == Special("inf", s)
NaN == Special("nan", 1)
Complex == Special("complex", 1)
\* A local variable no statement has assigned.
Unbound == Special("unbound", 1)
True == Special("True", 1)
False == Special("False", 1)
Raise(name) == Special(name, 1)

Exceptions ==
    {"ZeroDivisionError", "OverflowError", "TypeError", "ValueError",
     "UnboundLocalError"}

IsExc(a) == a.k \in Exceptions
IsFin(a) == a.k = "fin"
IsZero(a) == a.k = "fin" /\ a.m = 0
IsNumber(a) == a.k \in {"fin", "inf", "nan"}

\* The float of significand m at unit exponent t, m <= 2^Prec.
Pack(s, m, t) ==
    IF m = 0 THEN Zero
    ELSE IF m = 2^Prec
         THEN IF t + 1 > EmaxU THEN Inf(s) ELSE Fin(s, 2^(Prec - 1), t + 1)
         ELSE IF t > EmaxU THEN Inf(s) ELSE Fin(s, m, t)

\* s * N * 2^e rounded to the format: to nearest, ties to even; past the
\* largest float it is an infinity, below the subnormals it is zero.
Round(s, N, e) ==
    IF N = 0 THEN Zero
    ELSE LET L == BitLen(N)
             t0 == e + L - Prec
             t == IF t0 < EminU THEN EminU ELSE t0
             sh == t - e
         IN  IF sh <= 0 THEN Pack(s, N * 2^(-sh), t)
             ELSE IF sh > L THEN Zero
             ELSE LET q == N \div 2^sh
                      r == N % 2^sh
                      h == 2^(sh - 1)
                      up == r > h \/ (r = h /\ q % 2 = 1)
                  IN  Pack(s, IF up THEN q + 1 ELSE q, t)

\* The float of an integer literal, and of the decimal literal n/d.
F(n) == Round(Sign(n), Abs(n), 0)

\* n/d (n >= 0, d > 0) rounded once: the quotient carries Prec + 2 bits or
\* more and its last bit says whether anything was left.
RoundQuot(s, n, d, e) ==
    IF n = 0 THEN Zero
    ELSE LET up == Prec + 3 + BitLen(d) - BitLen(n)
             K == IF up < 0 THEN 0 ELSE up
             Q == (n * 2^K) \div d
             st == IF (n * 2^K) % d = 0 THEN 0 ELSE 1
         IN  Round(s, 2 * Q + st, e - K - 1)

C(n, d) == RoundQuot(Sign(n), Abs(n), d, 0)

\* math.pi.
PI == C(355, 113)

\* a * b
FMul(a, b) ==
    IF IsExc(a) THEN a
    ELSE IF IsExc(b) THEN b
    ELSE IF a.k = "complex" \/ b.k = "complex" THEN Complex
    ELSE IF a.k = "nan" \/ b.k = "nan" THEN NaN
    ELSE IF a.k = "inf" \/ b.k = "inf"
         THEN IF IsZero(a) \/ IsZero(b) THEN NaN ELSE Inf(a.s * b.s)
    ELSE Round(a.s * b.s, a.m * b.m, a.e + b.e)

\* a / b
FDiv(a, b) ==
    IF IsExc(a) THEN a
    ELSE IF IsExc(b) THEN b
    ELSE IF a.k = "complex" \/ b.k = "complex" THEN Complex
    ELSE IF IsZero(b) THEN Raise("ZeroDivisionError")
    ELSE IF a.k = "nan" \/ b.k = "nan" THEN NaN
    ELSE IF a.k = "inf"
         THEN IF b.k = "inf" THEN NaN ELSE Inf(a.s * b.s)
    ELSE IF b.k = "inf" THEN Zero
    ELSE RoundQuot(a.s * b.s, a.m, b.m, a.e - b.e)

\* a + b
FAdd(a, b) ==
    IF IsExc(a) THEN a
    ELSE IF IsExc(b) THEN b
    ELSE IF a.k = "complex" \/ b.k = "complex" THEN Complex
    ELSE IF a.k = "nan" \/ b.k = "nan" THEN NaN
    ELSE IF a.k = "inf"
         THEN IF b.k = "inf" /\ b.s # a.s THEN NaN ELSE a
    ELSE IF b.k = "inf" THEN b
    ELSE IF a.m = 0 THEN b
    ELSE IF b.m = 0 THEN a
    ELSE LET hi == IF a.e >= b.e THEN a ELSE b
             lo == IF a.e >= b.e THEN b ELSE a
             d == hi.e - lo.e
         IN  IF d <= 2 * Prec + 3
             THEN LET v == hi.s * hi.m * 2^d + lo.s * lo.m
                  IN  Round(Sign(v), Abs(v), lo.e)
             \* lo is less than an eighth of hi's last place: it only
             \* says on which side of hi the sum lies.
             ELSE Round(hi.s, hi.m * 8 + hi.s * lo.s, hi.e - 3)

\* a < b, for numbers; any comparison with a NaN is false.
Less(a, b) ==
    IF a.k = "nan" \/ b.k = "nan" THEN FALSE
    ELSE IF a.k = "inf" THEN a.s = -1 /\ ~(b.k = "inf" /\ b.s = -1)
    ELSE IF b.k = "inf" THEN b.s = 1
    ELSE IF a.s # b.s THEN a.s < b.s
    ELSE LET below(x, y) == x.e < y.e \/ (x.e = y.e /\ x.m < y.m)
         IN  IF a.s = 1 THEN below(a, b) ELSE below(b, a)

\* a <= b
LessEq(a, b) ==
    IF a.k = "nan" \/ b.k = "nan" THEN FALSE ELSE a = b \/ Less(a, b)

\* min(a, b): b when b < a, else a; a complex number cannot be compared.
FMin(a, b) ==
    IF IsExc(a) THEN a
    ELSE IF IsExc(b) THEN b
    ELSE IF a.k = "complex" \/ b.k = "complex" THEN Raise("TypeError")
    ELSE IF Less(b, a) THEN b ELSE a

\* x ** y for the two exponents the module uses: the integer 2 and the
\* float 1/3.  A square too large for a float raises OverflowError; a
\* negative number to the power 1/3 is a complex number.
RECURSIVE CbrtSearch(_, _, _)
CbrtSearch(n, lo, hi) ==
    IF lo >= hi THEN lo
    ELSE LET mid == (lo + hi + 1) \div 2
         IN  IF mid * mid * mid <= n THEN CbrtSearch(n, mid, hi)
             ELSE CbrtSearch(n, lo, mid - 1)

\* The largest c with c^3 <= n.
ICbrt(n) ==
    LET top == 2^(BitLen(n) \div 3 + 1)
    IN  CbrtSearch(n, 0, IF top > 1290 THEN 1290 ELSE top)

\* The cube root of m * 2^e (m > 0), rounded once.
CubeRoot(m, e) ==
    LET j == e % 3
        k == (e - j) \div 3
        t == Prec + 1
        M == m * 2^j * 2^(3 * t)
        c == ICbrt(M)
        st == IF c * c * c = M THEN 0 ELSE 1
    IN  Round(1, 2 * c + st, k - t - 1)

FPow(x, y) ==
    IF IsExc(x) THEN x
    ELSE IF IsExc(y) THEN y
    ELSE IF x.k = "complex" THEN Complex
    ELSE IF x.k = "nan" THEN NaN
    ELSE IF x.k = "inf" THEN Inf(1)
    ELSE IF y = F(2)
         THEN LET sq == Round(1, x.m * x.m, 2 * x.e)
              IN  IF sq.k = "inf" THEN Raise("OverflowError") ELSE sq
    ELSE IF x.m = 0 THEN Zero
    ELSE IF x.s = -1 THEN Complex
    ELSE CubeRoot(x.m, x.e)

\* math.sin, math.cos, math.tan.  The argument is taken to FxBits binary
\* places, reduced to a quarter turn, and the series is summed in fixed
\* point; an argument below 2^-(FxBits/2) is its own sine and tangent.
FxBits == 12
FxOne == 2^FxBits
HalfPiFx == (355 * FxOne + 113) \div 226

ToFx(x) ==
    IF x.e + FxBits >= 0 THEN x.m * 2^(x.e + FxBits)
    ELSE x.m \div 2^(-(x.e + FxBits))

SinSeries(t) ==
    LET u == (t * t) \div FxOne
        c4 == FxOne - u \div 72
        c3 == FxOne - (u * c4) \div (42 * FxOne)
        c2 == FxOne - (u * c3) \div (20 * FxOne)
        c1 == FxOne - (u * c2) \div (6 * FxOne)
    IN  (t * c1) \div FxOne

CosSeries(t) ==
    LET u == (t * t) \div FxOne
        c5 == FxOne - u \div 90
        c4 == FxOne - (u * c5) \div (56 * FxOne)
        c3 == FxOne - (u * c4) \div (30 * FxOne)
        c2 == FxOne - (u * c3) \div (12 * FxOne)
    IN  FxOne - (u * c2) \div (2 * FxOne)

\* sin and cos of a finite x >= 0 in units of 2^-FxBits; the cosine of a
\* float is never exactly zero.
SinFx(x) ==
    LET r == ToFx(x) % (4 * HalfPiFx)
        q == r \div HalfPiFx
        t == r % HalfPiFx
    IN  CASE q = 0 -> SinSeries(t)
          [] q = 1 -> CosSeries(t)
          [] q = 2 -> -SinSeries(t)
          [] OTHER -> -CosSeries(t)

CosFx(x) ==
    LET r == ToFx(x) % (4 * HalfPiFx)
        q == r \div HalfPiFx
        t == r % HalfPiFx
        c == CASE q = 0 -> CosSeries(t)
               [] q = 1 -> -SinSeries(t)
               [] q = 2 -> -CosSeries(t)
               [] OTHER -> SinSeries(t)
    IN  IF c = 0 THEN 1 ELSE c

IsSmallAngle(x) == ToFx(x) < 2^(FxBits \div 2)

Trig(x, f) ==
    IF IsExc(x) THEN x
    ELSE IF x.k = "complex" THEN Raise("TypeError")
    ELSE IF x.k = "nan" THEN NaN
    ELSE IF x.k = "inf" THEN Raise("ValueError")
    ELSE LET S == x.s * SinFx(x)
             Cs == CosFx(x)
         IN  CASE f = "sin" ->
                    IF IsSmallAngle(x) THEN x
                    ELSE Round(Sign(S), Abs(S), -FxBits)
               [] f = "cos" -> Round(Sign(Cs), Abs(Cs), -FxBits)
               [] OTHER ->
                    IF IsSmallAngle(x) THEN x
                    ELSE RoundQuot(Sign(S) * Sign(Cs), Abs(S), Abs(Cs), 0)

sin(x) == Trig(x, "sin")
cos(x) == Trig(x, "cos")
tan(x) == Trig(x, "tan")

----------------------------------------------------------------------------
(* The two functions imported from _concrete_shear.  Their code is not     *)
(* part of this module: each is some total, deterministic function of its  *)
(* arguments.  box selects which one; every argument can change the        *)
(* result.                                                                 *)

Code(x) == x.m + x.e - EminU + (IF x.s = -1 THEN 1 ELSE 0)

EpsilonValues == <<Zero, C(1, 1000), C(2, 1000), C(-1, 32)>>

epsilon_x(E_s, As, Med, Ved, Ned, z, delta_e) ==
    EpsilonValues[
        ((box + Code(E_s) + Code(As) + Code(Med) + Code(Ved) + Code(Ned)
              + Code(z) + Code(delta_e)) % Len(EpsilonValues)) + 1]

VRdMaxValues == <<Zero, F(2), F(8)>>

v_rd_max(approx_lvl_s, fck, bw, theta, z, E_s, As, Med, Ved, Ned, delta_e, alfa, gamma_c) ==
    VRdMaxValues[
        ((box + approx_lvl_s + Code(fck) + Code(bw) + Code(theta) + Code(z)
              + Code(E_s) + Code(As) + Code(Med) + Code(Ved) + Code(Ned)
              + Code(delta_e) + Code(alfa) + Code(gamma_c))
            % Len(VRdMaxValues)) + 1]

----------------------------------------------------------------------------
(* _concrete_torsion.py                                                    *)

\* theta * pi / 180
Radians(theta) == FDiv(FMul(theta, PI), F(180))

\* Reading a local variable: one never assigned raises UnboundLocalError.
Load(v) == IF v = Unbound THEN Raise("UnboundLocalError") ELSE v

\* Variants of v_ed_ti: the divisor's parentheses left out, and a_k = 0
\* answered with an infinity.
v_ed_ti_unparenthesised(t_ed, a_k, z_i) == FMul(FDiv(FMul(t_ed, z_i), F(2)), a_k)

v_ed_ti_inf_on_zero(t_ed, a_k, z_i) == IF IsZero(a_k) THEN Inf(1) ELSE FDiv(FMul(t_ed, z_i), FMul(F(2), a_k))

\* t_ed * z_i / (2 * a_k)
v_ed_ti(t_ed, a_k, z_i) == FDiv(FMul(t_ed, z_i), FMul(F(2), a_k))

t_ef(d_k) == FDiv(d_k, F(8))

\* Variant of nfc: the min left out.
nfc_unclamped(f_ck) == FPow(FDiv(F(30), f_ck), FDiv(F(1), F(3)))

\* min((30 / f_ck) ** (1 / 3), 1)
nfc(f_ck) == FMin(FPow(FDiv(F(30), f_ck), FDiv(F(1), F(3))), F(1))

\* epsilon_x(...) + (epsilon_x(...) + 0.002) * ((1 / tan(angle)) ** 2)
epsilon_1(angle, E_s, As, Med, Ved, Ned, z, delta_e) ==
    FAdd(epsilon_x(E_s, As, Med, Ved, Ned, z, delta_e),
         FMul(FAdd(epsilon_x(E_s, As, Med, Ved, Ned, z, delta_e),
                   C(2, 1000)),
              FPow(FDiv(F(1), tan(Radians(angle))), F(2))))

theta_min(E_s, As, Med, Ved, Ned, z, delta_e) ==
    FAdd(F(20), FMul(F(10000), epsilon_x(E_s, As, Med, Ved, Ned, z, delta_e)))

\* The angle whose cotangent enters epsilon_1 at levels 2 and 3.
strain_angle(theta, approx_lvl_s, E_s, As, Med, Ved, Ned, z, delta_e) ==
    IF approx_lvl_s = 2 THEN theta
    ELSE theta_min(E_s, As, Med, Ved, Ned, z, delta_e)

\* Variant of k_epsilon_strain: the min left out.
k_epsilon_strain_unclamped(eps1) == FDiv(F(1), FAdd(C(12, 10), FMul(F(55), eps1)))

\* min(1 / (1.2 + 55 * epsilon_1), 0.65)
k_epsilon_strain(eps1) ==
    FMin(FDiv(F(1), FAdd(C(12, 10), FMul(F(55), eps1))), C(65, 100))

\* Variants of k_epsilon: a final else that assigns 0.55, and level 1
\* sent down the branch of level 2.
k_epsilon_defaulted(theta, approx_lvl_s, E_s, As, Med, Ved, Ned, z, delta_e) ==
    IF approx_lvl_s \in {2, 3}
    THEN k_epsilon_strain(
             epsilon_1(strain_angle(theta, approx_lvl_s, E_s, As, Med, Ved,
                                    Ned, z, delta_e),
                       E_s, As, Med, Ved, Ned, z, delta_e))
    ELSE C(55, 100)

k_epsilon_level_one_strained(theta, approx_lvl_s, E_s, As, Med, Ved, Ned, z, delta_e) ==
    IF approx_lvl_s \in {1, 2}
    THEN k_epsilon_strain(epsilon_1(theta, E_s, As, Med, Ved, Ned, z, delta_e))
    ELSE IF approx_lvl_s = 3
    THEN k_epsilon_strain(
             epsilon_1(theta_min(E_s, As, Med, Ved, Ned, z, delta_e),
                       E_s, As, Med, Ved, Ned, z, delta_e))
    ELSE Unbound

\* k_epsilon after the if/elif chain: no branch assigns it when
\* approx_lvl_s is not 1, 2 or 3.
k_epsilon(theta, approx_lvl_s, E_s, As, Med, Ved, Ned, z, delta_e) ==
    IF approx_lvl_s = 1 THEN C(55, 100)
    ELSE IF approx_lvl_s \in {2, 3}
    THEN k_epsilon_strain(
             epsilon_1(strain_angle(theta, approx_lvl_s, E_s, As, Med, Ved,
                                    Ned, z, delta_e),
                       E_s, As, Med, Ved, Ned, z, delta_e))
    ELSE Unbound

\* nfc is computed first (line 61), then the branch, then the product.
k_c(f_ck, theta, approx_lvl_s, E_s, As, Med, Ved, Ned, z, delta_e) ==
    IF IsExc(nfc(f_ck)) THEN nfc(f_ck)
    ELSE FMul(nfc(f_ck),
              Load(k_epsilon(theta, approx_lvl_s, E_s, As, Med, Ved, Ned, z,
                             delta_e)))

\* Variant of trig_angle: level 3 carries theta_min into the final
\* sin * cos.
trig_angle_refined(theta, approx_lvl_s, E_s, As, Med, Ved, Ned, z, delta_e) ==
    IF approx_lvl_s = 3 THEN theta_min(E_s, As, Med, Ved, Ned, z, delta_e)
    ELSE theta

\* The angle of the final sin * cos.
trig_angle(theta, approx_lvl_s, E_s, As, Med, Ved, Ned, z, delta_e) == theta

\* Variant of t_rd_max: a_k divides where it should multiply.
t_rd_max_over_area(f_ck, gamma_c, d_k, a_k, theta, approx_lvl_s, E_s, As, Med, Ved, Ned, z, delta_e) ==
    LET angle == trig_angle(theta, approx_lvl_s, E_s, As, Med, Ved, Ned, z,
                            delta_e)
    IN  FDiv(
          FMul(
            FMul(
              FDiv(
                FMul(
                  FMul(
                    FMul(k_c(f_ck, theta, approx_lvl_s, E_s, As, Med, Ved,
                             Ned, z, delta_e),
                         f_ck),
                    t_ef(d_k)),
                  F(2)),
                a_k),
              sin(Radians(angle))),
            cos(Radians(angle))),
          gamma_c)

\* k_c * f_ck * t_ef * 2 * a_k * sin(theta * pi / 180)
\*     * cos(theta * pi / 180) / gamma_c
t_rd_max(f_ck, gamma_c, d_k, a_k, theta, approx_lvl_s, E_s, As, Med, Ved, Ned, z, delta_e) ==
    LET angle == trig_angle(theta, approx_lvl_s, E_s, As, Med, Ved, Ned, z,
                            delta_e)
    IN  FDiv(
          FMul(
            FMul(
              FMul(
                FMul(
                  FMul(
                    FMul(k_c(f_ck, theta, approx_lvl_s, E_s, As, Med, Ved,
                             Ned, z, delta_e),
                         f_ck),
                    t_ef(d_k)),
                  F(2)),
                a_k),
              sin(Radians(angle))),
            cos(Radians(angle))),
          gamma_c)

\* The calls t_rd_max makes to epsilon_x: none when nfc raises or at
\* level 1, two at level 2, three at level 3.
t_rd_max_calls(f_ck, approx_lvl_s, E_s, As, Med, Ved, Ned, z, delta_e) ==
    LET c == [fn |-> "epsilon_x",
              args |-> <<E_s, As, Med, Ved, Ned, z, delta_e>>]
    IN  IF IsExc(nfc(f_ck)) THEN <<>>
        ELSE IF approx_lvl_s = 2 THEN <<c, c>>
        ELSE IF approx_lvl_s = 3 THEN <<c, c, c>>
        ELSE <<>>

\* A parameter the caller left out.
Omitted == Special("omitted", 1)

\* gamma_c: float = 1.5
gamma_c_default(gamma_c) == IF gamma_c = Omitted THEN C(15, 10) ELSE gamma_c

\* The arguments t_rd passes to t_rd_max and to v_rd_max, in their order.
t_rd_max_args(t_ed, approx_lvl_s, fck, bw, theta, z, E_s, As, Med, Ved, Ned, delta_e, alfa, f_ck, d_k, a_k, gamma_c) ==
    <<f_ck, gamma_c, d_k, a_k, theta, approx_lvl_s, E_s, As, Med, Ved, Ned,
      z, delta_e>>

\* Variant of v_rd_max_args: f_ck where fck belongs.
v_rd_max_args_one_strength(t_ed, approx_lvl_s, fck, bw, theta, z, E_s, As, Med, Ved, Ned, delta_e, alfa, f_ck, d_k, a_k, gamma_c) ==
    <<approx_lvl_s, f_ck, bw, theta, z, E_s, As, Med, Ved, Ned, delta_e, alfa,
      gamma_c>>

v_rd_max_args(t_ed, approx_lvl_s, fck, bw, theta, z, E_s, As, Med, Ved, Ned, delta_e, alfa, f_ck, d_k, a_k, gamma_c) ==
    <<approx_lvl_s, fck, bw, theta, z, E_s, As, Med, Ved, Ned, delta_e, alfa,
      gamma_c>>

Apply_t_rd_max(a) ==
    t_rd_max(a[1], a[2], a[3], a[4], a[5], a[6], a[7], a[8], a[9], a[10],
             a[11], a[12], a[13])

Apply_v_rd_max(a) ==
    v_rd_max(a[1], a[2], a[3], a[4], a[5], a[6], a[7], a[8], a[9], a[10],
             a[11], a[12], a[13])

\* (t_ed / t_rd_max(...)) ** 2
torsion_term(t_ed, ta) == FPow(FDiv(t_ed, Apply_t_rd_max(ta)), F(2))

\* (Ved / v_rd_max(...)) ** 2
shear_term(Ved, va) == FPow(FDiv(Ved, Apply_v_rd_max(va)), F(2))

\* Variant of within_unity: < where <= belongs.
within_unity_strict(sum) ==
    IF IsExc(sum) THEN sum
    ELSE IF Less(sum, F(1)) THEN True ELSE False

\* bool(sum <= 1)
within_unity(sum) ==
    IF IsExc(sum) THEN sum
    ELSE IF LessEq(sum, F(1)) THEN True ELSE False

t_rd(t_ed, approx_lvl_s, fck, bw, theta, z, E_s, As, Med, Ved, Ned, delta_e, alfa, f_ck, d_k, a_k, gamma_c) ==
    LET g == gamma_c_default(gamma_c)
        ta == t_rd_max_args(t_ed, approx_lvl_s, fck, bw, theta, z, E_s, As,
                            Med, Ved, Ned, delta_e, alfa, f_ck, d_k, a_k, g)
        va == v_rd_max_args(t_ed, approx_lvl_s, fck, bw, theta, z, E_s, As,
                            Med, Ved, Ned, delta_e, alfa, f_ck, d_k, a_k, g)
    IN  within_unity(FAdd(torsion_term(t_ed, ta), shear_term(Ved, va)))

\* The calls t_rd makes: t_rd_max, then v_rd_max unless the torsion term
\* has raised.
t_rd_calls(t_ed, approx_lvl_s, fck, bw, theta, z, E_s, As, Med, Ved, Ned, delta_e, alfa, f_ck, d_k, a_k, gamma_c) ==
    LET g == gamma_c_default(gamma_c)
        ta == t_rd_max_args(t_ed, approx_lvl_s, fck, bw, theta, z, E_s, As,
                            Med, Ved, Ned, delta_e, alfa, f_ck, d_k, a_k, g)
        va == v_rd_max_args(t_ed, approx_lvl_s, fck, bw, theta, z, E_s, As,
                            Med, Ved, Ned, delta_e, alfa, f_ck, d_k, a_k, g)
    IN  IF IsExc(torsion_term(t_ed, ta))
        THEN <<[fn |-> "t_rd_max", args |-> ta]>>
        ELSE <<[fn |-> "t_rd_max", args |-> ta],
               [fn |-> "v_rd_max", args |-> va]>>

----------------------------------------------------------------------------
(* The calls.                                                              *)

\* The largest float, the smallest positive float, and a float whose
\* double is a float but whose triple is not.
MaxFloat == Fin(1, 2^Prec - 1, EmaxU)
MinFloat == Fin(1, 1, EminU)
BigFloat == Fin(1, 3 * 2^(Prec - 2), EmaxU - 1)

\* The helpers' arguments E_s, As, Med, Ved, Ned, z, delta_e.
Strain(E_s, As, Med, Ved, Ned, z, delta_e) ==
    [E_s |-> E_s, As |-> As, Med |-> Med, Ved |-> Ved, Ned |-> Ned,
     z |-> z, delta_e |-> delta_e]

BaseStrain == Strain(F(200), F(100), F(1000), F(2), F(-4), F(16), F(1))

\* BaseStrain, and BaseStrain with one argument doubled.
StrainVariants ==
    {BaseStrain,
     [BaseStrain EXCEPT !.E_s = F(400)],
     [BaseStrain EXCEPT !.As = F(200)],
     [BaseStrain EXCEPT !.Med = F(2000)],
     [BaseStrain EXCEPT !.Ved = F(4)],
     [BaseStrain EXCEPT !.Ned = F(-8)],
     [BaseStrain EXCEPT !.z = F(32)],
     [BaseStrain EXCEPT !.delta_e = F(2)]}

Boxes == 0 .. 3

Calls_v_ed_ti ==
    [t_ed : {F(1), F(3), BigFloat, MinFloat},
     a_k : {Zero, F(1), C(1, 4)},
     z_i : {F(1), C(3, 2), C(1, 2)}]

Calls_t_rd_max ==
    [f_ck : {F(-30), Zero, F(15), F(30), F(240)},
     gamma_c : {Zero, C(15, 10)},
     d_k : {F(8), MaxFloat},
     a_k : {F(-1), Zero, F(1), F(4)},
     theta : {Zero, F(30), F(45), F(135)},
     approx_lvl_s : {1, 2, 3, 4},
     strain : {BaseStrain}]

Calls_t_rd ==
    [t_ed : {Zero, F(1), BigFloat},
     approx_lvl_s : {1, 2, 4},
     fck : {F(20), F(40)},
     bw : {F(1)},
     theta : {F(45)},
     alfa : {F(90)},
     f_ck : {F(15), F(240)},
     d_k : {F(8)},
     a_k : {Zero, F(1)},
     gamma_c : {Omitted, C(15, 10), F(3)},
     strain : {BaseStrain, [BaseStrain EXCEPT !.Ved = Zero]}]

None == Special("none", 1)

Init ==
    /\ \/ fn = "v_ed_ti" /\ args \in Calls_v_ed_ti
       \/ fn = "t_rd_max" /\ args \in Calls_t_rd_max
       \/ fn = "t_rd" /\ args \in Calls_t_rd
    /\ box \in Boxes
    /\ pc = "call"
    /\ ret = None
    /\ calls = <<>>

\* The functions applied to a call's arguments.
Run_v_ed_ti(a) == v_ed_ti(a.t_ed, a.a_k, a.z_i)

Run_t_rd_max(a) ==
    t_rd_max(a.f_ck, a.gamma_c, a.d_k, a.a_k, a.theta, a.approx_lvl_s,
             a.strain.E_s, a.strain.As, a.strain.Med, a.strain.Ved,
             a.strain.Ned, a.strain.z, a.strain.delta_e)

Run_t_rd_max_calls(a) ==
    t_rd_max_calls(a.f_ck, a.approx_lvl_s, a.strain.E_s, a.strain.As,
                   a.strain.Med, a.strain.Ved, a.strain.Ned, a.strain.z,
                   a.strain.delta_e)

Run_t_rd(a) ==
    t_rd(a.t_ed, a.approx_lvl_s, a.fck, a.bw, a.theta, a.strain.z,
         a.strain.E_s, a.strain.As, a.strain.Med, a.strain.Ved,
         a.strain.Ned, a.strain.delta_e, a.alfa, a.f_ck, a.d_k, a.a_k,
         a.gamma_c)

Run_t_rd_calls(a) ==
    t_rd_calls(a.t_ed, a.approx_lvl_s, a.fck, a.bw, a.theta, a.strain.z,
               a.strain.E_s, a.strain.As, a.strain.Med, a.strain.Ved,
               a.strain.Ned, a.strain.delta_e, a.alfa, a.f_ck, a.d_k, a.a_k,
               a.gamma_c)

Call_v_ed_ti ==
    /\ pc = "call"
    /\ fn = "v_ed_ti"
    /\ ret' = Run_v_ed_ti(args)
    /\ calls' = <<>>
    /\ pc' = "done"
    /\ UNCHANGED <<fn, args, box>>

Call_t_rd_max ==
    /\ pc = "call"
    /\ fn = "t_rd_max"
    /\ ret' = Run_t_rd_max(args)
    /\ calls' = Run_t_rd_max_calls(args)
    /\ pc' = "done"
    /\ UNCHANGED <<fn, args, box>>

Call_t_rd ==
    /\ pc = "call"
    /\ fn = "t_rd"
    /\ ret' = Run_t_rd(args)
    /\ calls' = Run_t_rd_calls(args)
    /\ pc' = "done"
    /\ UNCHANGED <<fn, args, box>>

Next == Call_v_ed_ti \/ Call_t_rd_max \/ Call_t_rd

Spec == Init /\ [][Next]_vars

----------------------------------------------------------------------------
(* The claims.                                                             *)

Returned(f) == pc = "done" /\ fn = f

\* Python's ==: a NaN equals nothing.
PyEq(a, b) == a.k # "nan" /\ b.k # "nan" /\ a = b

Positive(x) == Less(Zero, x)

\* A finite float of at least twice the smallest normal float: the exact
\* value it was rounded from was no subnormal.
NoUnderflow(x) == x.k = "fin" /\ x.m # 0 /\ x.e > EminU

ZeroDivision == Raise("ZeroDivisionError")

\* v_ed_ti of the doubled torsion, and the double of what v_ed_ti returned.
OfDoubled == v_ed_ti(FMul(F(2), args.t_ed), args.a_k, args.z_i)
DoubleOf == FMul(F(2), ret)

\* C7 as stated: for all t_ed > 0, z_i > 0 and a_k > 0, v_ed_ti returns
\* t_ed * z_i / (2 * a_k) and v_ed_ti(2 * t_ed, a_k, z_i) equals
\* 2 * v_ed_ti(t_ed, a_k, z_i).
C7_LinearForAllPositive ==
    (Returned("v_ed_ti") /\ Positive(args.t_ed) /\ Positive(args.z_i)
        /\ Positive(args.a_k))
    => /\ ret = FDiv(FMul(args.t_ed, args.z_i), FMul(F(2), args.a_k))
       /\ PyEq(OfDoubled, DoubleOf)

\* C7 holds where the products and quotients of both calls stay in the
\* range of the normal floats.
C7_InRange ==
    /\ NoUnderflow(FMul(args.t_ed, args.z_i))
    /\ NoUnderflow(ret)
    /\ IsFin(FMul(FMul(F(2), args.t_ed), args.z_i))
    /\ IsFin(DoubleOf)

\* C7, amended: for all t_ed > 0, z_i > 0 and a_k > 0, v_ed_ti returns
\* t_ed * z_i / (2 * a_k), and v_ed_ti(2 * t_ed, a_k, z_i) equals
\* 2 * v_ed_ti(t_ed, a_k, z_i) whenever nothing overflows (2 * t_ed * z_i and
\* the doubled result are finite) and nothing underflows (t_ed * z_i and the
\* result are at least twice the smallest normal float).
C7_LinearInRange ==
    (Returned("v_ed_ti") /\ Positive(args.t_ed) /\ Positive(args.z_i)
        /\ Positive(args.a_k))
    => /\ ret = FDiv(FMul(args.t_ed, args.z_i), FMul(F(2), args.a_k))
       /\ C7_InRange => PyEq(OfDoubled, DoubleOf)

\* C7's case: a call with positive arguments in range, with a result that
\* is not a power of two times the arguments alone (z_i = 3/2).
C7_Witness ==
    /\ Returned("v_ed_ti")
    /\ Positive(args.t_ed) /\ Positive(args.a_k)
    /\ args.z_i = C(3, 2)
    /\ C7_InRange
    /\ PyEq(OfDoubled, DoubleOf)

\* The capacities of a call of t_rd: what t_rd_max returns for the
\* arguments t_rd passed it, and what v_rd_max returns for the arguments
\* t_rd passes it.
TorsionCapacity == Apply_t_rd_max(calls[1].args)

ShearCapacity ==
    v_rd_max(args.approx_lvl_s, args.fck, args.bw, args.theta, args.strain.z,
             args.strain.E_s, args.strain.As, args.strain.Med,
             args.strain.Ved, args.strain.Ned, args.strain.delta_e,
             args.alfa, gamma_c_default(args.gamma_c))

\* The dividend of t_rd_max's final division by gamma_c.
Dividend_t_rd_max ==
    FMul(FMul(FMul(FMul(FMul(FMul(
        k_c(args.f_ck, args.theta, args.approx_lvl_s, args.strain.E_s,
            args.strain.As, args.strain.Med, args.strain.Ved,
            args.strain.Ned, args.strain.z, args.strain.delta_e),
        args.f_ck), FDiv(args.d_k, F(8))), F(2)), args.a_k),
        sin(Radians(args.theta))), cos(Radians(args.theta)))

\* A call that divides by zero: v_ed_ti with a_k = 0, t_rd_max with
\* gamma_c = 0 and a dividend that is a number, t_rd with a torsion capacity
\* of 0, or with a shear capacity of 0 and a torsion term that is a number.
ZeroDivisor ==
    \/ Returned("v_ed_ti") /\ IsZero(args.a_k)
    \/ Returned("t_rd_max") /\ IsZero(args.gamma_c)
         /\ IsNumber(Dividend_t_rd_max)
    \/ Returned("t_rd") /\ IsZero(TorsionCapacity)
    \/ Returned("t_rd") /\ IsZero(ShearCapacity)
         /\ IsNumber(torsion_term(args.t_ed, calls[1].args))

\* C8 as stated: a zero divisor is no error: the call completes and
\* returns an infinity or a NaN.
C8_ZeroDivisorReturnsInfOrNaN == ZeroDivisor => ret.k \in {"inf", "nan"}

\* C8, amended: a zero divisor is an error outcome.  v_ed_ti with a_k == 0,
\* t_rd_max with gamma_c == 0, and t_rd when t_rd_max(...) or v_rd_max(...)
\* is 0, raise ZeroDivisionError at the division and return nothing, no
\* infinity and no NaN.
C8_ZeroDivisorRaises == ZeroDivisor => ret = ZeroDivision

\* C8's case: v_ed_ti called with a_k = 0 and a torsion that is not 0.
C8_Witness ==
    /\ Returned("v_ed_ti")
    /\ IsZero(args.a_k)
    /\ Positive(args.t_ed)
    /\ ret = ZeroDivision

\* The locals of the call of t_rd_max in this state.
K_epsilon ==
    k_epsilon(args.theta, args.approx_lvl_s, args.strain.E_s, args.strain.As,
              args.strain.Med, args.strain.Ved, args.strain.Ned,
              args.strain.z, args.strain.delta_e)

Epsilon_x ==
    epsilon_x(args.strain.E_s, args.strain.As, args.strain.Med,
              args.strain.Ved, args.strain.Ned, args.strain.z,
              args.strain.delta_e)

\* 1 / tan(angle * pi / 180) squared, and epsilon_1 for that angle.
CotSquared(angle) == FPow(FDiv(F(1), tan(Radians(angle))), F(2))

Epsilon_1(angle) ==
    FAdd(Epsilon_x, FMul(FAdd(Epsilon_x, C(2, 1000)), CotSquared(angle)))

\* 1 / (1.2 + 55 * epsilon_1), before the clamp.
Unclamped(eps1) == FDiv(F(1), FAdd(C(12, 10), FMul(F(55), eps1)))

\* The result formed from a strength factor, a strain factor and an angle:
\* nfcv * keps * f_ck * (d_k / 8) * 2 * a_k * sin * cos / gamma_c.
Formed(nfcv, keps, angle) ==
    FDiv(FMul(FMul(FMul(FMul(FMul(FMul(FMul(nfcv, keps),
        args.f_ck), FDiv(args.d_k, F(8))), F(2)), args.a_k),
        sin(Radians(angle))), cos(Radians(angle))), args.gamma_c)

Third == FDiv(F(1), F(3))

C3_LevelOneClosedForm ==
    (Returned("t_rd_max") /\ args.approx_lvl_s = 1)
    => /\ ret = Formed(FMin(FPow(FDiv(F(30), args.f_ck), Third), F(1)),
                       C(55, 100), args.theta)
       /\ calls = <<>>
       /\ \A S \in StrainVariants :
              Run_t_rd_max([args EXCEPT !.strain = S]) = ret

\* C3's case: a level-1 call that returns a positive number, where
\* epsilon_x is not the same for all the strain arguments.
C3_Witness ==
    /\ Returned("t_rd_max")
    /\ args.approx_lvl_s = 1
    /\ IsFin(ret) /\ Positive(ret)
    /\ \E S \in StrainVariants :
           epsilon_x(S.E_s, S.As, S.Med, S.Ved, S.Ned, S.z, S.delta_e)
               # Epsilon_x

\* The angle of epsilon_1: theta at level 2, theta_min at level 3.
StrainAngle ==
    IF args.approx_lvl_s = 2 THEN args.theta
    ELSE FAdd(F(20), FMul(F(10000), Epsilon_x))

\* C4: at levels 2 and 3, when k_epsilon is computed it is
\* min(1 / (1.2 + 55 * epsilon_1), 0.65) and never exceeds 0.65.
C4_StrainFactorClamped ==
    (Returned("t_rd_max") /\ args.approx_lvl_s \in {2, 3}
        /\ IsNumber(K_epsilon))
    => /\ LessEq(K_epsilon, C(65, 100))
       /\ K_epsilon = FMin(Unclamped(Epsilon_1(StrainAngle)), C(65, 100))
       /\ IsNumber(nfc(args.f_ck)) =>
              ret = Formed(nfc(args.f_ck), K_epsilon, args.theta)

\* C4's case: 1 / (1.2 + 55 * epsilon_1) is above 0.65 and k_epsilon is
\* 0.65.
C4_Witness ==
    /\ Returned("t_rd_max")
    /\ args.approx_lvl_s \in {2, 3}
    /\ IsNumber(ret)
    /\ Less(C(65, 100), Unclamped(Epsilon_1(StrainAngle)))
    /\ K_epsilon = C(65, 100)

\* C5: for f_ck > 0, nfc is at most 1: it is (30/f_ck)^(1/3) when
\* f_ck >= 30 and exactly 1 when f_ck < 30, and at every level the result is
\* formed from this clamped value.
C5_StrengthFactorClamped ==
    (Returned("t_rd_max") /\ Positive(args.f_ck))
    => /\ LessEq(nfc(args.f_ck), F(1))
       /\ LessEq(F(30), args.f_ck) =>
              nfc(args.f_ck) = FPow(FDiv(F(30), args.f_ck), Third)
       /\ Less(args.f_ck, F(30)) => nfc(args.f_ck) = F(1)
       /\ ret = Formed(
                    IF Less(args.f_ck, F(30)) THEN F(1)
                    ELSE FPow(FDiv(F(30), args.f_ck), Third),
                    Load(K_epsilon), args.theta)

\* C5's case: f_ck < 30, so that (30/f_ck)^(1/3) > 1, and a result.
C5_Witness ==
    /\ Returned("t_rd_max")
    /\ Positive(args.f_ck) /\ Less(args.f_ck, F(30))
    /\ Less(F(1), FPow(FDiv(F(30), args.f_ck), Third))
    /\ IsFin(ret) /\ Positive(ret)

\* What t_rd_max returns with a_k replaced.
WithArea(a2) == Run_t_rd_max([args EXCEPT !.a_k = a2])

Areas == {F(-1), Zero, F(1), F(4)}

\* C6 as stated: for every approx_lvl_s in {1, 2, 3} and all values of the
\* other parameters, a_k1 <= a_k2 gives
\* t_rd_max(..., a_k1, ...) <= t_rd_max(..., a_k2, ...).
C6_MonotoneForAll ==
    (Returned("t_rd_max") /\ args.approx_lvl_s \in {1, 2, 3}
        /\ IsNumber(ret))
    => \A a2 \in Areas : LessEq(args.a_k, a2) => LessEq(ret, WithArea(a2))

\* The factors a_k is multiplied by are not negative: f_ck > 0, d_k >= 0,
\* gamma_c > 0, k_epsilon >= 0, and theta from 0 to 90 degrees with
\* sin(theta) >= 0 and cos(theta) >= 0.
C6_FactorsNotNegative ==
    /\ Positive(args.f_ck)
    /\ LessEq(Zero, args.d_k)
    /\ Positive(args.gamma_c)
    /\ LessEq(Zero, K_epsilon)
    /\ LessEq(Zero, args.theta) /\ LessEq(args.theta, F(90))
    /\ LessEq(Zero, sin(Radians(args.theta)))
    /\ LessEq(Zero, cos(Radians(args.theta)))

\* C6, amended: t_rd_max is monotonically non-decreasing in a_k when the
\* factors a_k is multiplied by are not negative (f_ck > 0, d_k >= 0,
\* gamma_c > 0, k_epsilon >= 0, 0 <= theta <= 90 degrees) and neither result
\* is a NaN (an overflowed product times 0): then a_k1 <= a_k2 gives
\* t_rd_max(..., a_k1, ...) <= t_rd_max(..., a_k2, ...).
C6_MonotoneNotNegative ==
    (Returned("t_rd_max") /\ args.approx_lvl_s \in {1, 2, 3}
        /\ IsNumber(ret) /\ C6_FactorsNotNegative /\ ret.k # "nan")
    => \A a2 \in Areas :
           (LessEq(args.a_k, a2) /\ WithArea(a2).k # "nan")
           => LessEq(ret, WithArea(a2))

\* C6's case: a larger area gives a strictly larger capacity.
C6_Witness ==
    /\ Returned("t_rd_max")
    /\ args.approx_lvl_s \in {2, 3}
    /\ C6_FactorsNotNegative
    /\ IsFin(ret) /\ Positive(ret)
    /\ \E a2 \in Areas :
           /\ Less(args.a_k, a2)
           /\ IsFin(WithArea(a2))
           /\ Less(ret, WithArea(a2))

Thetas == {Zero, F(30), F(45), F(135)}

\* k_epsilon of this call with theta replaced.
K_epsilonAt(th) ==
    k_epsilon(th, args.approx_lvl_s, args.strain.E_s, args.strain.As,
              args.strain.Med, args.strain.Ved, args.strain.Ned,
              args.strain.z, args.strain.delta_e)

Theta_min == FAdd(F(20), FMul(F(10000), Epsilon_x))

\* C9: at every level the final sin(theta) * cos(theta) is computed from
\* the input theta.  At level 3 k_epsilon is formed from theta_min =
\* 20 + 10000 * epsilon_x(...) alone, whatever the input theta; at level 2
\* it is formed from the input theta.
C9_FinalAngleIsInput ==
    (Returned("t_rd_max") /\ args.approx_lvl_s \in {1, 2, 3})
    => /\ ret = Formed(nfc(args.f_ck), K_epsilon, args.theta)
       /\ args.approx_lvl_s = 3 =>
              /\ K_epsilon = FMin(Unclamped(Epsilon_1(Theta_min)),
                                  C(65, 100))
              /\ \A th \in Thetas : K_epsilonAt(th) = K_epsilon
       /\ args.approx_lvl_s = 2 =>
              K_epsilon = FMin(Unclamped(Epsilon_1(args.theta)),
                               C(65, 100))

\* C9's case: a level-3 call that returns a number, where theta_min is not
\* theta, the result formed with theta_min instead would differ, and
\* k_epsilon formed with theta instead would differ.
C9_Witness ==
    /\ Returned("t_rd_max")
    /\ args.approx_lvl_s = 3
    /\ IsFin(ret) /\ Positive(ret)
    /\ Theta_min # args.theta
    /\ Formed(nfc(args.f_ck), K_epsilon, Theta_min) # ret
    /\ FMin(Unclamped(Epsilon_1(args.theta)), C(65, 100)) # K_epsilon

\* The two utilisation ratios of a call of t_rd, and the sum of their
\* squares in float arithmetic (a square past the largest float is an
\* infinity).
TorsionRatio == FDiv(args.t_ed, TorsionCapacity)
ShearRatio == FDiv(args.strain.Ved, ShearCapacity)

SumOfSquares ==
    FAdd(FMul(TorsionRatio, TorsionRatio), FMul(ShearRatio, ShearRatio))

NonZeroCapacities ==
    /\ Returned("t_rd")
    /\ IsNumber(TorsionCapacity) /\ ~IsZero(TorsionCapacity)
    /\ IsNumber(ShearCapacity) /\ ~IsZero(ShearCapacity)

\* C1 as stated: whenever t_rd_max and v_rd_max return non-zero
\* capacities, t_rd returns true if the sum of the squared ratios is at most
\* 1 and false if it is greater than 1.
C1_UnityForAllNonZero ==
    NonZeroCapacities
    => ret = IF LessEq(SumOfSquares, F(1)) THEN True ELSE False

SquareOverflows(x) == IsFin(x) /\ FMul(x, x).k = "inf"

\* C1, amended: whenever t_rd_max and v_rd_max return non-zero capacities
\* and neither squared ratio overflows, t_rd returns true if and only if
\* (t_ed / t_rd_max(...))^2 + (Ved / v_rd_max(...))^2 <= 1, true when the sum
\* is exactly 1 and false when it is greater; when a squared ratio is too
\* large for a float, t_rd raises OverflowError instead of returning false.
C1_UnityUnlessOverflow ==
    NonZeroCapacities
    => ret = IF SquareOverflows(TorsionRatio) THEN Raise("OverflowError")
             ELSE IF SquareOverflows(ShearRatio) THEN Raise("OverflowError")
             ELSE IF LessEq(SumOfSquares, F(1)) THEN True
             ELSE False

\* C1's case: the sum of the squared ratios is exactly 1, and t_rd returns
\* true.
C1_Witness ==
    /\ NonZeroCapacities
    /\ SumOfSquares = F(1)
    /\ ret = True

\* The gamma_c t_rd works with.
Gamma == IF args.gamma_c = Omitted THEN C(15, 10) ELSE args.gamma_c

\* C10: t_rd passes f_ck, d_k and a_k to t_rd_max only and fck, bw and alfa
\* to v_rd_max only, and the same gamma_c (1.5 when the caller omits it),
\* theta and approx_lvl_s to both: the torsion capacity is the same whatever
\* fck is, and the arguments of v_rd_max are the same whatever f_ck, d_k and
\* a_k are.
C10_Routing ==
    Returned("t_rd")
    => /\ calls[1] =
              [fn |-> "t_rd_max",
               args |-> <<args.f_ck, Gamma, args.d_k, args.a_k, args.theta,
                          args.approx_lvl_s, args.strain.E_s,
                          args.strain.As, args.strain.Med, args.strain.Ved,
                          args.strain.Ned, args.strain.z,
                          args.strain.delta_e>>]
       /\ Len(calls) = 2 =>
              calls[2] =
                  [fn |-> "v_rd_max",
                   args |-> <<args.approx_lvl_s, args.fck, args.bw,
                              args.theta, args.strain.z, args.strain.E_s,
                              args.strain.As, args.strain.Med,
                              args.strain.Ved, args.strain.Ned,
                              args.strain.delta_e, args.alfa, Gamma>>]
       /\ Len(calls) \in {1, 2}
       /\ Len(calls) = 1 <=> IsExc(torsion_term(args.t_ed, calls[1].args))
       /\ \A f \in {F(20), F(40)} :
              Run_t_rd_calls([args EXCEPT !.fck = f])[1] = calls[1]
       /\ \A f \in {F(15), F(240)}, d \in {F(8), F(16)},
             a \in {Zero, F(1)} :
              LET other == Run_t_rd_calls(
                               [args EXCEPT !.f_ck = f, !.d_k = d,
                                            !.a_k = a])
              IN  (Len(calls) = 2 /\ Len(other) = 2)
                  => other[2] = calls[2]

\* C10's case: the caller omits gamma_c, both helpers are called, and
\* v_rd_max is not the same for fck and f_ck.
C10_Witness ==
    /\ Returned("t_rd")
    /\ args.gamma_c = Omitted
    /\ Len(calls) = 2
    /\ calls[1].args[2] = C(15, 10)
    /\ calls[2].args[13] = C(15, 10)
    /\ args.fck # args.f_ck
    /\ ret \in {True, False}
    /\ Apply_v_rd_max([calls[2].args EXCEPT ![2] = args.f_ck])
           # ShearCapacity

=============================================================================
